---- MODULE Spec2Model ----
(***************************************************************************)
(* Focal-plane shutter tester (opok/shutter_tester).                       *)
(*                                                                         *)
(* The repository holds four versions of one Arduino sketch.  All share    *)
(* the globals s1[2], s2[2], dataReady and four edge interrupt handlers;   *)
(* they differ in how a cycle is completed and re-armed:                   *)
(*   "v20"  src/shutter_tester.ino   Timer, re-arm 1000 ms after display   *)
(*   "v21"  src/unnamed/part_002     Timer, re-arm 2000 ms after display   *)
(*   "v21c" src/unnamed/part_001     as v20, plus a 2000 ms timer started  *)
(*                                   in s1_down, corrected results         *)
(*   "v1"   src/unnamed/part_000     LcdBacklight, dataReady set in        *)
(*                                   s2_down, reset inside s1_up           *)
(*                                                                         *)
(* Interrupt handlers run with interrupts disabled (AVR), so each handler  *)
(* is one atomic action.  The main loop is interleaved with them statement *)
(* by statement: pc names the statement of loop() that runs next.          *)
(* Array indices are the source's: s1[0] is the dark-to-light time, s1[1]  *)
(* the light-to-dark time.                                                 *)
(***************************************************************************)
EXTENDS Integers, Sequences, FiniteSets

VARIABLES
    variant,    \* which sketch is running (fixed in a behaviour)
    epoch,      \* millis() in the initial state (fixed in a behaviour)
    now,        \* millis(); micros() is derived from it
    s1, s2,     \* volatile unsigned long s1[2], s2[2]
    dataReady,  \* volatile bool dataReady
    isr1, isr2, \* handler attached to SENSOR_1 / SENSOR_2 ("none": detached)
    timer,      \* Timer timer: the pending after() events, in slot order
    lcdOn,      \* LcdBacklight::lcdOn     (v1)
    startTime,  \* LcdBacklight::startTime (v1)
    locals,     \* the durations onDataReady computed from the timestamps it read
    reads,      \* the reads done so far in the current statement of onDataReady (v1)
    lcd,        \* the durations onDataReady last handed to the print functions
    pc,         \* next statement of loop()
    serial,     \* the function that wrote the last line to Serial
    calc        \* inputs and results of the calculator and formatter runs and of
                \* the replays of part_000

vars == <<variant, epoch, now, s1, s2, dataReady, isr1, isr2, timer,
          lcdOn, startTime, locals, reads, lcd, pc, serial, calc>>

----------------------------------------------------------------------------
(* Bounds of the model *)

\* number of clock steps explored after the initial state
MaxTicks == 5

----------------------------------------------------------------------------
(* Program constants *)

Variants == {"v20", "v21", "v21c", "v1"}
TimerVariants == {"v20", "v21", "v21c"}

\* unsigned long is 32 bits wide on the AVR
ULongBits == 32

\* micros() of the 16 MHz Arduino Nano counts in steps of 4 us, so every
\* timestamp and every difference of timestamps is a multiple of 4.  The model
\* holds each unsigned long time t as t / 4; a stored value wraps at 2^32 / 4.
Wrap == 2 ^ (ULongBits - 2)

\* timer.after(<ms>, resetMeasuredData, ...) in onDataReady
DwellMs(v) == IF v = "v21" THEN 2000 ELSE 1000

\* timer.after(2000, resetMeasuredData, ...) in s1_down of part_001
StallMs == 2000

\* lcdBacklight.begin(&lcd, 10): period in seconds
BacklightSeconds == 10

\* delay(200) in LcdBacklight::start, delay(100) in LcdBacklight::checkTime
StartDelayMs == 200
CheckDelayMs == 100

\* One clock step of the model: half the shortest period the sketch waits for.
TickMs(v) == IF v = "v1" THEN (BacklightSeconds * 1000) \div 2 ELSE 1000 \div 2

\* millis() values at which the model starts: shortly after boot, and shortly
\* before micros() wraps (2^32 us = 4294967.296 ms after boot).
StartTimes == {1000, 4294000}

\* micros() at millis() = t, in steps of 4 us: (1000 * t mod 2^32) / 4
Micros(t) == (t * 250) % Wrap

----------------------------------------------------------------------------
(* Unsigned long values that are not timestamps.                          *)
(* A duration handed to the calculator or the formatter is held in whole  *)
(* microseconds as its 32-bit pattern read as a long: u for u < 2^31 and  *)
(* u - 2^32 for the larger values (the checker's integers are 32 bits).   *)

\* the largest long, 2^31 - 1
LongMax == 2 * (Wrap - 1) + 1

\* the unsigned long 4 * d of a duration d held in steps of 4 us
ULongOfSteps(d) == IF d < Wrap \div 2 THEN 4 * d ELSE 4 * (d - Wrap)

\* a < b as unsigned longs
ULongLess(a, b) == IF (a < 0) = (b < 0) THEN a < b ELSE b < 0

\* u / n and u % n as unsigned longs, for a small n > 0
\* (for u >= 2^31: u = x + LongMax + 1 with x = u - 2^31)
ULongDiv(u, n) ==
    IF u >= 0 THEN u \div n
    ELSE LET x == (u + LongMax) + 1
         IN  (x \div n) + (LongMax \div n) + (((x % n) + (LongMax % n) + 1) \div n)

ULongMod(u, n) ==
    IF u >= 0 THEN u % n
    ELSE LET x == (u + LongMax) + 1
         IN  ((x % n) + (LongMax % n) + 1) % n

----------------------------------------------------------------------------
(* Arithmetic of the AVR's double, the 32-bit IEEE float.  A float is a   *)
(* record [neg, m, e] with the value (-1)^neg * m * 2^e, where m = 0 or   *)
(* 2^23 <= m < 2^24 (no value of the sketches comes near the subnormal or *)
(* the infinite range, except the quotient by zero handled in Reciprocal).*)
(* Every operation rounds to the nearest float, ties to the even mantissa.*)

FloatZero == [neg |-> FALSE, m |-> 0, e |-> 0]

\* the number of binary digits of n >= 0
RECURSIVE BitLen(_)
BitLen(n) == IF n = 0 THEN 0 ELSE 1 + BitLen(n \div 2)

\* the float nearest to n * 2^e (+ a fraction of 2^e below one unit if sticky),
\* for 0 <= n < 2^31; a sticky n has at least 26 digits
FloatRound(neg, n, e, sticky) ==
    IF n = 0 THEN FloatZero
    ELSE LET k == BitLen(n)
         IN  IF k <= 24
             THEN [neg |-> neg, m |-> n * 2 ^ (24 - k), e |-> e - (24 - k)]
             ELSE LET sh == k - 24
                      q == n \div 2 ^ sh
                      r == n % 2 ^ sh
                      half == 2 ^ (sh - 1)
                      up == r > half \/ (r = half /\ (sticky \/ q % 2 = 1))
                      q1 == IF up THEN q + 1 ELSE q
                  IN  IF q1 = 2 ^ 24
                      THEN [neg |-> neg, m |-> 2 ^ 23, e |-> e + sh + 1]
                      ELSE [neg |-> neg, m |-> q1, e |-> e + sh]

\* conversion of an int or long to float
FloatOfLong(x) == IF x < 0 THEN FloatRound(TRUE, -x, 0, FALSE)
                  ELSE FloatRound(FALSE, x, 0, FALSE)

\* conversion of an unsigned long to float
FloatOfULong(u) ==
    IF u >= 0 THEN FloatRound(FALSE, u, 0, FALSE)
    ELSE FloatRound(FALSE, (LongMax + (u \div 2)) + 1, 1, u % 2 = 1)

FloatNeg(a) == [a EXCEPT !.neg = ~a.neg]

\* a * b: the 48-digit product of the mantissas, from their 12-digit halves
FloatMul(a, b) ==
    IF a.m = 0 \/ b.m = 0 THEN FloatZero
    ELSE LET a1 == a.m \div 4096
             a0 == a.m % 4096
             b1 == b.m \div 4096
             b0 == b.m % 4096
             mid == a1 * b0 + a0 * b1
             low == (mid % 4096) * 4096 + a0 * b0
             high == a1 * b1 + (mid \div 4096) + (low \div 2 ^ 24)
             rest == low % 2 ^ 24
         IN  FloatRound(a.neg # b.neg, high * 64 + (rest \div 2 ^ 18),
                        a.e + b.e + 18, rest % 2 ^ 18 # 0)

\* the quotient acc and the remainder of rem * 2^digits by d, digit by digit
RECURSIVE LongDivision(_, _, _, _)
LongDivision(acc, rem, d, digits) ==
    IF digits = 0 THEN <<acc, rem>>
    ELSE IF 2 * rem >= d
         THEN LongDivision(2 * acc + 1, 2 * rem - d, d, digits - 1)
         ELSE LongDivision(2 * acc, 2 * rem, d, digits - 1)

\* a / b for b # 0
FloatDiv(a, b) ==
    IF a.m = 0 THEN FloatZero
    ELSE LET qr == LongDivision(a.m \div b.m, a.m % b.m, b.m, 26)
         IN  FloatRound(a.neg # b.neg, qr[1], a.e - b.e - 26, qr[2] # 0)

\* a + b
FloatAdd(a, b) ==
    IF a.m = 0 THEN b
    ELSE IF b.m = 0 THEN a
    ELSE LET aBig == a.e > b.e \/ (a.e = b.e /\ a.m >= b.m)
             big == IF aBig THEN a ELSE b
             small == IF aBig THEN b ELSE a
             d == big.e - small.e
             A == big.m * 64
             B == IF d <= 6 THEN small.m * 2 ^ (6 - d)
                  ELSE IF d >= 31 THEN 0
                  ELSE small.m \div 2 ^ (d - 6)
             lost == IF d <= 6 THEN FALSE
                     ELSE IF d >= 31 THEN TRUE
                     ELSE small.m % 2 ^ (d - 6) # 0
         IN  IF big.neg = small.neg
             THEN FloatRound(big.neg, A + B, big.e - 6, lost)
             ELSE IF lost
                  THEN FloatRound(big.neg, A - B - 1, big.e - 6, TRUE)
                  ELSE FloatRound(big.neg, A - B, big.e - 6, FALSE)

FloatSub(a, b) == FloatAdd(a, FloatNeg(b))

\* the low 32 digits of the whole part of |a|, as an unsigned long
FloatWholeLow32(a) ==
    IF a.m = 0 \/ a.e >= 32 \/ a.e <= -24 THEN 0
    ELSE IF a.e < 0 THEN a.m \div 2 ^ (-a.e)
    ELSE IF a.e <= 7 THEN a.m * 2 ^ a.e
    ELSE LET r == a.m % 2 ^ (32 - a.e)
         IN  IF r >= 2 ^ (31 - a.e) THEN (r - 2 ^ (32 - a.e)) * 2 ^ a.e
             ELSE r * 2 ^ a.e

\* what a conversion of an out-of-range float to an integer type can leave
\* (undefined behaviour), besides the low 32 digits: zero, or the pattern
\* 0x80000000, which is the smallest long
OutOfRange == {0, -LongMax - 1}

\* the negative of an unsigned long, modulo 2^32
ULongNegated(u) == IF u = -LongMax - 1 THEN u ELSE -u

\* conversion of a float to unsigned long: the fraction is dropped; undefined
\* when the whole part is negative or 2^32 or more (a build that converts
\* through a wider integer leaves the low 32 digits)
FloatToULong(a) ==
    IF a.m = 0 \/ a.e <= -24 THEN {0}
    ELSE IF ~a.neg /\ a.e <= 8 THEN {FloatWholeLow32(a)}
    ELSE OutOfRange \cup {IF a.neg THEN ULongNegated(FloatWholeLow32(a))
                          ELSE FloatWholeLow32(a)}

\* conversion of a float to long: undefined when the whole part does not fit
FloatToLong(a) ==
    IF a.m = 0 \/ a.e <= -24 THEN {0}
    ELSE IF a.e <= 7 THEN {IF a.neg THEN -FloatWholeLow32(a) ELSE FloatWholeLow32(a)}
    ELSE OutOfRange \cup {IF a.neg THEN ULongNegated(FloatWholeLow32(a))
                          ELSE FloatWholeLow32(a)}

----------------------------------------------------------------------------
(* Arithmetic of onDataReady on the timestamps (steps of 4 us) *)

Max(a, b) == IF a >= b THEN a ELSE b
Min(a, b) == IF a <= b THEN a ELSE b
Abs(n) == IF n < 0 THEN -n ELSE n

\* unsigned long subtraction: s[1] - s[0]
Exposure(s) == (s[1] - s[0]) % Wrap

\* max(a, b) - min(a, b)
Travel(a, b) == Max(a, b) - Min(a, b)

\* The four durations onDataReady computes from the timestamps it reads, in
\* microseconds: exposure1, exposure2, travel1, travel2 (exp1raw, exp2raw,
\* travel1raw, travel2raw in part_001).
Results(a, b) ==
    [e1 |-> ULongOfSteps(Exposure(a)), e2 |-> ULongOfSteps(Exposure(b)),
     t1 |-> ULongOfSteps(Travel(a[0], b[0])), t2 |-> ULongOfSteps(Travel(b[1], a[1]))]

----------------------------------------------------------------------------
(* The calculator and the formatter as functions of their inputs.         *)
(* On the AVR double is the 32-bit float and int has 16 bits.             *)

\* #define ONE_SECOND 1000000
ONE_SECOND == 1000000

\* #define HOLE_X_DISTANCE 30
HOLE_X_DISTANCE == 30

\* #define TRAVEL_CORR_COEF 1.15, EXPOSURE_CORR_COEF 0.6, HOLE_DIAMETER 1.0,
\* S1_CORR_COEF 1.0, S2_CORR_COEF 1.0: the floats nearest to the decimals
TRAVEL_CORR_COEF == FloatDiv(FloatOfLong(115), FloatOfLong(100))
EXPOSURE_CORR_COEF == FloatDiv(FloatOfLong(6), FloatOfLong(10))
HOLE_DIAMETER == FloatOfLong(1)
S1_CORR_COEF == FloatOfLong(1)
S2_CORR_COEF == FloatOfLong(1)

\* conversion to the 16-bit int of "int whole = microseconds/1000"
ToInt(x) == ((x + 32768) % 65536) - 32768

\* 36/HOLE_X_DISTANCE: a division of two positive int constants, which the
\* compiler folds; the quotient is truncated
HoleRatio == 36 \div HOLE_X_DISTANCE

\* (unsigned long) 1.2 * travel: the cast applies to 1.2
TravelExtrapolated(travel) == 1 * travel

\* TRAVEL_CORR_COEF * (36/HOLE_X_DISTANCE) * travelraw, then stored in an
\* unsigned long
TravelCorrected(raw) ==
    FloatToULong(FloatMul(FloatMul(TRAVEL_CORR_COEF, FloatOfLong(HoleRatio)),
                          FloatOfULong(raw)))

\* S1_CORR_COEF * (exp1raw - EXPOSURE_CORR_COEF * HOLE_DIAMETER * travel2 / 36),
\* then stored in an unsigned long (likewise with S2_CORR_COEF and exp2raw)
ExposureCorrected(coef, expraw, travel2) ==
    FloatToULong(
        FloatMul(coef,
                 FloatSub(FloatOfULong(expraw),
                          FloatDiv(FloatMul(FloatMul(EXPOSURE_CORR_COEF, HOLE_DIAMETER),
                                            FloatOfULong(travel2)),
                                   FloatOfLong(36)))))

\* the four durations onDataReady hands to the print functions, given the
\* four it has computed from the timestamps (raw): part_001 scales the
\* travels and corrects the exposures, the other sketches print them as is.
\* (A set: a conversion of an out-of-range float can leave several values.)
Displayed(v, raw) ==
    IF v = "v21c"
    THEN UNION {{[e1 |-> x1, e2 |-> x2, t1 |-> y1, t2 |-> y2] :
                    x1 \in ExposureCorrected(S1_CORR_COEF, raw.e1, y2),
                    x2 \in ExposureCorrected(S2_CORR_COEF, raw.e2, y2)} :
                y1 \in TravelCorrected(raw.t1),
                y2 \in TravelCorrected(raw.t2)}
    ELSE {raw}

\* the same for timestamps a = s1 and b = s2 given in whole microseconds
\* below 2^31 with a[0] <= a[1] and b[0] <= b[1], so that no subtraction wraps
Derived(v, a, b) ==
    Displayed(v, [e1 |-> a[1] - a[0], e2 |-> b[1] - b[0],
                  t1 |-> Travel(a[0], b[0]), t2 |-> Travel(b[1], a[1])])

\* round(1.0/((double)exposure/ONE_SECOND)); Arduino's round(x) is
\* (long)((x)+0.5) for x >= 0.  For exposure 0 the quotient is infinite.
Reciprocal(exposure) ==
    IF exposure = 0 THEN OutOfRange
    ELSE FloatToLong(
             FloatAdd(FloatDiv(FloatOfLong(1),
                               FloatDiv(FloatOfULong(exposure), FloatOfLong(ONE_SECOND))),
                      FloatDiv(FloatOfLong(1), FloatOfLong(2))))

\* the text printed for the exposure at the start of a row:
\* "1/<n>", "<n>ms", or nothing
ExposureText(v, exposure) ==
    IF ULongLess(exposure, ONE_SECOND)
    THEN {[kind |-> "1/", n |-> r] : r \in Reciprocal(exposure)}
    ELSE IF v \in {"v20", "v1"}
         THEN {[kind |-> "ms", n |-> ULongDiv(exposure, 1000)]}
         ELSE {[kind |-> "none", n |-> 0]}

\* floor(log10(whole)) for whole > 0
RECURSIVE Log10Floor(_)
Log10Floor(n) == IF n < 10 THEN 0 ELSE 1 + Log10Floor(n \div 10)

\* the sketches whose formatter tests "whole > 0" before calling log10
GuardsLog10(v) == v \in {"v21", "v21c"}

NotPrinted == [printed |-> FALSE, log10 |-> <<>>, col |-> 0, whole |-> 0, fraction |-> 0]

\* printRightAlignedMs (and the second half of printResults / printResult):
\* the arguments log10 was called with, the cursor column, and the two numbers
\* printed around the '.'.  log10 of zero or of a negative int gives a column
\* that no uint8_t can take (undefined behaviour).
RightAlignedMs(v, microseconds) ==
    LET whole == ToInt(ULongDiv(microseconds, 1000))
        fraction == ToInt(ULongMod(microseconds, 1000) \div 10)
    IN  IF whole > 0
        THEN {[printed |-> TRUE, log10 |-> <<whole>>, col |-> 10 - Log10Floor(whole),
               whole |-> whole, fraction |-> fraction]}
        ELSE IF GuardsLog10(v)
             THEN {[printed |-> TRUE, log10 |-> <<>>, col |-> 10,
                    whole |-> whole, fraction |-> fraction]}
             ELSE {[printed |-> TRUE, log10 |-> <<whole>>, col |-> c,
                    whole |-> whole, fraction |-> fraction] : c \in {0, 10, 255}}

\* the travel handed to the millisecond formatter
PrintedTravel(v, travel) ==
    IF v \in {"v20", "v21"} THEN TravelExtrapolated(travel) ELSE travel

\* the millisecond field printRightAlignedMs adds after the exposure text
ExposureMs(v, exposure) ==
    IF v \in {"v21", "v21c"} THEN RightAlignedMs(v, exposure) ELSE {NotPrinted}

----------------------------------------------------------------------------
(* Timer library: after() and update() *)

Zero == [i \in {0, 1} |-> 0]

\* no statement of onDataReady is in the middle of its reads: at is the number
\* of reads done, rd the value last read, pick the operand a comparison chose
\* (1 or 2), mx the value of max(...)
NoReads == [at |-> 0, rd |-> 0, pick |-> 0, mx |-> 0]

\* timer.after(period, resetMeasuredData, 0)
After(tm, t, period) == Append(tm, [start |-> t, period |-> period])

\* an event fires once millis() - start >= period, the difference taken in
\* unsigned long: with start later than millis() it wraps to a large value
Due(e, t) == LET elapsed == t - e.start IN elapsed < 0 \/ elapsed >= e.period

DueSlots(tm, t) == {i \in 1..Len(tm) : Due(tm[i], t)}

\* first due event in slot order
FirstDue(tm, t) == CHOOSE i \in DueSlots(tm, t) : \A j \in DueSlots(tm, t) : i <= j

Remove(tm, i) == [j \in 1..(Len(tm) - 1) |-> IF j < i THEN tm[j] ELSE tm[j + 1]]

\* the completion test of loop()
AllSet == s1[0] # 0 /\ s1[1] # 0 /\ s2[0] # 0 /\ s2[1] # 0

\* LcdBacklight::checkTime() would report expiry
BacklightExpired == lcdOn /\ now > startTime + BacklightSeconds * 1000

\* the first value of millis() at which checkTime() reports expiry
ExpiryMs == startTime + BacklightSeconds * 1000 + 1

----------------------------------------------------------------------------
(* Initial state: setup() has run.  The last line on Serial is setup's   *)
(* "setting up..." in the Timer sketches and initInterrupts' line in     *)
(* part_000.                                                             *)

Init ==
    /\ variant \in Variants
    /\ epoch \in StartTimes
    /\ now = epoch
    /\ s1 = Zero
    /\ s2 = Zero
    /\ dataReady = FALSE
    /\ isr1 = IF variant = "v1" THEN "s1_up" ELSE "s1_down"
    /\ isr2 = IF variant = "v1" THEN "s2_up" ELSE "s2_down"
    /\ timer = <<>>
    /\ lcdOn = FALSE
    /\ startTime = 0
    /\ locals = [e1 |-> 0, e2 |-> 0, t1 |-> 0, t2 |-> 0]
    /\ reads = NoReads
    /\ lcd = [shown |-> FALSE, e1 |-> 0, e2 |-> 0, t1 |-> 0, t2 |-> 0]
    /\ pc = "loop"
    /\ serial = IF variant = "v1" THEN "initInterrupts" ELSE "setup"
    /\ calc = [step |-> "none"]

----------------------------------------------------------------------------
(* Interrupt handlers *)

\* The handlers that write to Serial: all four in shutter_tester.ino (after the
\* dataReady test), s1_up and s2_down in part_000; in part_001 and part_002
\* the Serial lines of the handlers are absent or commented out.
HandlerPrints(v, h) == v = "v20" \/ (v = "v1" /\ h \in {"s1_up", "s2_down"})

s1_down ==
    /\ isr1 = "s1_down"
    /\ IF variant = "v1"
       THEN /\ s1' = [s1 EXCEPT ![1] = Micros(now)]
            /\ isr1' = "none"
            /\ UNCHANGED <<timer, serial>>
       ELSE IF dataReady
            THEN UNCHANGED <<s1, isr1, timer, serial>>
            ELSE /\ s1' = IF s1[0] = 0 THEN [s1 EXCEPT ![0] = Micros(now)] ELSE s1
                 /\ isr1' = "s1_up"
                 /\ timer' = IF variant = "v21c"
                             THEN After(timer, now, StallMs)
                             ELSE timer
                 /\ serial' = IF HandlerPrints(variant, "s1_down") THEN "s1_down" ELSE serial
    /\ UNCHANGED <<calc, reads, locals, variant, epoch, now, s2, dataReady, isr2, lcdOn, startTime, lcd, pc>>

\* s1_up of the Timer sketches without its "if(dataReady) { return; }"
s1_up_NoReadyGuard ==
    /\ isr1 = "s1_up"
    /\ variant \in TimerVariants
    /\ s1' = IF s1[1] = 0 THEN [s1 EXCEPT ![1] = Micros(now)] ELSE s1
    /\ isr1' = "none"
    /\ serial' = IF HandlerPrints(variant, "s1_up") THEN "s1_up" ELSE serial
    /\ UNCHANGED <<calc, reads, locals, variant, epoch, now, s2, dataReady, isr2, timer, lcdOn, startTime, lcd, pc>>

s1_up ==
    /\ isr1 = "s1_up"
    /\ IF variant = "v1"
       THEN /\ dataReady' = FALSE
            /\ s1' = [Zero EXCEPT ![0] = Micros(now)]
            /\ s2' = Zero
            /\ isr1' = "s1_down"
            /\ serial' = "s1_up"
       ELSE IF dataReady
            THEN UNCHANGED <<s1, s2, dataReady, isr1, serial>>
            ELSE /\ s1' = IF s1[1] = 0 THEN [s1 EXCEPT ![1] = Micros(now)] ELSE s1
                 /\ isr1' = "none"
                 /\ serial' = IF HandlerPrints(variant, "s1_up") THEN "s1_up" ELSE serial
                 /\ UNCHANGED <<s2, dataReady>>
    /\ UNCHANGED <<calc, reads, locals, variant, epoch, now, isr2, timer, lcdOn, startTime, lcd, pc>>

s2_down ==
    /\ isr2 = "s2_down"
    /\ IF variant = "v1"
       THEN /\ s2' = [s2 EXCEPT ![1] = Micros(now)]
            /\ isr2' = "none"
            /\ dataReady' = TRUE
            /\ serial' = "s2_down"
       ELSE IF dataReady
            THEN UNCHANGED <<s2, isr2, dataReady, serial>>
            ELSE /\ s2' = IF s2[0] = 0 THEN [s2 EXCEPT ![0] = Micros(now)] ELSE s2
                 /\ isr2' = "s2_up"
                 /\ serial' = IF HandlerPrints(variant, "s2_down") THEN "s2_down" ELSE serial
                 /\ UNCHANGED dataReady
    /\ UNCHANGED <<calc, reads, locals, variant, epoch, now, s1, isr1, timer, lcdOn, startTime, lcd, pc>>

s2_up ==
    /\ isr2 = "s2_up"
    /\ IF variant = "v1"
       THEN /\ s2' = [s2 EXCEPT ![0] = Micros(now)]
            /\ isr2' = "s2_down"
            /\ UNCHANGED serial
       ELSE IF dataReady
            THEN UNCHANGED <<s2, isr2, serial>>
            ELSE /\ s2' = IF s2[1] = 0 THEN [s2 EXCEPT ![1] = Micros(now)] ELSE s2
                 /\ isr2' = "none"
                 /\ serial' = IF HandlerPrints(variant, "s2_up") THEN "s2_up" ELSE serial
    /\ UNCHANGED <<calc, reads, locals, variant, epoch, now, s1, dataReady, isr1, timer, lcdOn, startTime, lcd, pc>>

ISR == s1_down \/ s1_up \/ s2_down \/ s2_up

----------------------------------------------------------------------------
(* Main loop of the Timer sketches: timer.update(), then the completion test *)

FirstHandler1 == IF variant = "v1" THEN "s1_up" ELSE "s1_down"
FirstHandler2 == IF variant = "v1" THEN "s2_up" ELSE "s2_down"

ResetPcs == {"reset_s10", "reset_s11", "reset_s20", "reset_s21", "reset_ready",
             "init_detach1", "init_detach2", "init_attach1", "init_attach2"}

\* timer.update(): a due event is freed and its callback resetMeasuredData runs
TimerUpdate ==
    /\ variant \in TimerVariants
    /\ pc = "loop"
    /\ DueSlots(timer, now) # {}
    /\ timer' = Remove(timer, FirstDue(timer, now))
    /\ serial' = "resetMeasuredData"
    /\ pc' = "reset_s10"
    /\ UNCHANGED <<calc, reads, locals, variant, epoch, now, s1, s2, dataReady, isr1, isr2, lcdOn, startTime, lcd>>

\* resetMeasuredData: s1[0] = 0; s1[1] = 0; s2[0] = 0; s2[1] = 0; dataReady = false;
ResetS10 ==
    /\ pc = "reset_s10"
    /\ s1' = [s1 EXCEPT ![0] = 0]
    /\ pc' = "reset_s11"
    /\ UNCHANGED <<calc, reads, locals, serial, variant, epoch, now, s2, dataReady, isr1, isr2, timer, lcdOn, startTime, lcd>>

ResetS11 ==
    /\ pc = "reset_s11"
    /\ s1' = [s1 EXCEPT ![1] = 0]
    /\ pc' = "reset_s20"
    /\ UNCHANGED <<calc, reads, locals, serial, variant, epoch, now, s2, dataReady, isr1, isr2, timer, lcdOn, startTime, lcd>>

ResetS20 ==
    /\ pc = "reset_s20"
    /\ s2' = [s2 EXCEPT ![0] = 0]
    /\ pc' = "reset_s21"
    /\ UNCHANGED <<calc, reads, locals, serial, variant, epoch, now, s1, dataReady, isr1, isr2, timer, lcdOn, startTime, lcd>>

ResetS21 ==
    /\ pc = "reset_s21"
    /\ s2' = [s2 EXCEPT ![1] = 0]
    /\ pc' = "reset_ready"
    /\ UNCHANGED <<calc, reads, locals, serial, variant, epoch, now, s1, dataReady, isr1, isr2, timer, lcdOn, startTime, lcd>>

ResetReady ==
    /\ pc = "reset_ready"
    /\ dataReady' = FALSE
    /\ pc' = "init_detach1"
    /\ UNCHANGED <<calc, reads, locals, serial, variant, epoch, now, s1, s2, isr1, isr2, timer, lcdOn, startTime, lcd>>

\* initInterrupts of the Timer sketches: detach both, clear EIFR, attach both
InitDetach1 ==
    /\ pc = "init_detach1"
    /\ isr1' = "none"
    /\ pc' = "init_detach2"
    /\ UNCHANGED <<calc, reads, locals, serial, variant, epoch, now, s1, s2, dataReady, isr2, timer, lcdOn, startTime, lcd>>

\* detachInterrupt(SENSOR_2); EIFR = 0x03 (latched flags are not modelled)
InitDetach2 ==
    /\ pc = "init_detach2"
    /\ isr2' = "none"
    /\ pc' = "init_attach1"
    /\ UNCHANGED <<calc, reads, locals, serial, variant, epoch, now, s1, s2, dataReady, isr1, timer, lcdOn, startTime, lcd>>

InitAttach1 ==
    /\ pc = "init_attach1"
    /\ isr1' = FirstHandler1
    /\ pc' = "init_attach2"
    /\ UNCHANGED <<calc, reads, locals, serial, variant, epoch, now, s1, s2, dataReady, isr2, timer, lcdOn, startTime, lcd>>

\* the last statement of initInterrupts; control returns to loop()
InitAttach2 ==
    /\ pc = "init_attach2"
    /\ isr2' = FirstHandler2
    /\ pc' = IF variant = "v1" THEN "ready_check" ELSE "loop"
    /\ UNCHANGED <<calc, reads, locals, serial, variant, epoch, now, s1, s2, dataReady, isr1, timer, lcdOn, startTime, lcd>>

\* the completion test without its "!dataReady"
LoopCheck_NoLatch ==
    /\ variant \in TimerVariants
    /\ pc = "loop"
    /\ DueSlots(timer, now) = {}
    /\ AllSet
    /\ dataReady' = TRUE
    /\ pc' = "odr"
    /\ UNCHANGED <<calc, reads, locals, serial, variant, epoch, now, s1, s2, isr1, isr2, timer, lcdOn, startTime, lcd>>

\* if(!dataReady && s1[0] != 0 && s1[1] != 0 && s2[0] != 0 && s2[1] != 0)
\*   { dataReady = true; onDataReady(); }
\* An iteration whose test fails changes nothing.
LoopCheck ==
    /\ variant \in TimerVariants
    /\ pc = "loop"
    /\ DueSlots(timer, now) = {}
    /\ ~dataReady
    /\ AllSet
    /\ dataReady' = TRUE
    /\ pc' = "odr"
    /\ UNCHANGED <<calc, reads, locals, serial, variant, epoch, now, s1, s2, isr1, isr2, timer, lcdOn, startTime, lcd>>

\* onDataReady of the Timer sketches: compute, print, then schedule the
\* re-arm.  dataReady is true while it runs, so every handler returns at once
\* and the timestamps it reads cannot change.
OnDataReady ==
    /\ variant \in TimerVariants
    /\ pc = "odr"
    /\ locals' = Results(s1, s2)
    /\ \E d \in Displayed(variant, Results(s1, s2)) :
          lcd' = [shown |-> TRUE, e1 |-> d.e1, e2 |-> d.e2, t1 |-> d.t1, t2 |-> d.t2]
    /\ timer' = After(timer, now, DwellMs(variant))
    /\ serial' = "onDataReady"
    /\ pc' = "loop"
    /\ UNCHANGED <<calc, reads, variant, epoch, now, s1, s2, dataReady, isr1, isr2, lcdOn, startTime>>

----------------------------------------------------------------------------
(* Main loop of the backlight sketch (v1).  Its handlers do not test      *)
(* dataReady, so they can write between any two reads of onDataReady and   *)
(* during the delay() calls of LcdBacklight.  A statement that reads the   *)
(* timestamps takes one step per read, any other statement is one step.   *)

\* onDataReady: Serial.println("onDataReady");
OdrBegin ==
    /\ variant = "v1"
    /\ pc = "odr"
    /\ serial' = "onDataReady"
    /\ pc' = "odr_exposure1"
    /\ UNCHANGED <<calc, reads, locals, variant, epoch, now, s1, s2, dataReady, isr1, isr2, timer, lcdOn, startTime, lcd>>

\* "x - y" on two volatile unsigned longs: x is read, then y is read and
\* subtracted (the order the compiler emits).  Given the reads rs done so far
\* and the present values of x and y, the next read: the reads done after it,
\* whether the statement is complete, and then the difference before it is
\* reduced to an unsigned long.
DifferenceStep(rs, x, y) ==
    IF rs.at = 0
    THEN [reads |-> [rs EXCEPT !.at = 1, !.rd = x], done |-> FALSE, value |-> 0]
    ELSE [reads |-> NoReads, done |-> TRUE, value |-> rs.rd - y]

\* "max(x, y) - min(x, y)" with Arduino's macros ((a)>(b)?(a):(b)) and
\* ((a)<(b)?(a):(b)) on volatile operands: x and y are read and compared, the
\* larger is read again; x and y are read and compared, the smaller is read
\* again and subtracted.  Every read is a step.
MaxMinStep(rs, x, y) ==
    CASE rs.at = 0 -> [reads |-> [rs EXCEPT !.at = 1, !.rd = x], done |-> FALSE, value |-> 0]
      [] rs.at = 1 -> [reads |-> [rs EXCEPT !.at = 2, !.rd = 0,
                                            !.pick = IF rs.rd > y THEN 1 ELSE 2],
                       done |-> FALSE, value |-> 0]
      [] rs.at = 2 -> [reads |-> [rs EXCEPT !.at = 3, !.pick = 0,
                                            !.mx = IF rs.pick = 1 THEN x ELSE y],
                       done |-> FALSE, value |-> 0]
      [] rs.at = 3 -> [reads |-> [rs EXCEPT !.at = 4, !.rd = x], done |-> FALSE, value |-> 0]
      [] rs.at = 4 -> [reads |-> [rs EXCEPT !.at = 5, !.rd = 0,
                                            !.pick = IF rs.rd < y THEN 1 ELSE 2],
                       done |-> FALSE, value |-> 0]
      [] rs.at = 5 -> [reads |-> NoReads, done |-> TRUE,
                       value |-> rs.mx - (IF rs.pick = 1 THEN x ELSE y)]

\* a statement of onDataReady that assigns such a difference of timestamps
\* (steps of 4 us) to a local (microseconds), one read per step
DifferenceReads(x, y, local) ==
    LET r == DifferenceStep(reads, x, y)
    IN  /\ reads' = r.reads
        /\ locals' = IF r.done
                     THEN [locals EXCEPT ![local] = ULongOfSteps(r.value % Wrap)]
                     ELSE locals

MaxMinReads(x, y, local) ==
    LET r == MaxMinStep(reads, x, y)
    IN  /\ reads' = r.reads
        /\ locals' = IF r.done
                     THEN [locals EXCEPT ![local] = ULongOfSteps(r.value % Wrap)]
                     ELSE locals

\* exposure1 = s1[1] - s1[0];
OdrExposure1 ==
    /\ pc = "odr_exposure1"
    /\ DifferenceReads(s1[1], s1[0], "e1")
    /\ pc' = IF reads'.at = 0 THEN "odr_exposure2" ELSE pc
    /\ UNCHANGED <<calc, serial, variant, epoch, now, s1, s2, dataReady, isr1, isr2, timer, lcdOn, startTime, lcd>>

\* exposure2 = s2[1] - s2[0];
OdrExposure2 ==
    /\ pc = "odr_exposure2"
    /\ DifferenceReads(s2[1], s2[0], "e2")
    /\ pc' = IF reads'.at = 0 THEN "odr_travel1" ELSE pc
    /\ UNCHANGED <<calc, serial, variant, epoch, now, s1, s2, dataReady, isr1, isr2, timer, lcdOn, startTime, lcd>>

\* travel1 = max(s1[0], s2[0]) - min(s1[0], s2[0]);
OdrTravel1 ==
    /\ pc = "odr_travel1"
    /\ MaxMinReads(s1[0], s2[0], "t1")
    /\ pc' = IF reads'.at = 0 THEN "odr_travel2" ELSE pc
    /\ UNCHANGED <<calc, serial, variant, epoch, now, s1, s2, dataReady, isr1, isr2, timer, lcdOn, startTime, lcd>>

\* travel2 = max(s2[1], s1[1]) - min(s2[1], s1[1]);
OdrTravel2 ==
    /\ pc = "odr_travel2"
    /\ MaxMinReads(s2[1], s1[1], "t2")
    /\ pc' = IF reads'.at = 0 THEN "odr_print" ELSE pc
    /\ UNCHANGED <<calc, serial, variant, epoch, now, s1, s2, dataReady, isr1, isr2, timer, lcdOn, startTime, lcd>>

\* printResult(0, exposure1, travel1); printResult(1, exposure2, travel2);
OdrPrintResult ==
    /\ pc = "odr_print"
    /\ lcd' = [shown |-> TRUE, e1 |-> locals.e1, e2 |-> locals.e2,
               t1 |-> locals.t1, t2 |-> locals.t2]
    /\ pc' = "start"
    /\ UNCHANGED <<calc, reads, locals, serial, variant, epoch, now, s1, s2, dataReady, isr1, isr2, timer, lcdOn, startTime>>

\* lcdBacklight.start(): if(lcdOn == true) return false;
\* Serial.println("lcd backlight turn on"); startTime = millis(); setBacklight(HIGH);
BacklightStart ==
    /\ pc = "start"
    /\ IF lcdOn
       THEN pc' = "clear_ready" /\ UNCHANGED <<serial, startTime>>
       ELSE /\ serial' = "LcdBacklight::start"
            /\ startTime' = now
            /\ pc' = "start_delay"
    /\ UNCHANGED <<calc, reads, locals, variant, epoch, now, s1, s2, dataReady, isr1, isr2, timer, lcdOn, lcd>>

\* delay(200);
BacklightStartDelay ==
    /\ pc = "start_delay"
    /\ now' = now + StartDelayMs
    /\ pc' = "start_on"
    /\ UNCHANGED <<calc, reads, locals, serial, variant, epoch, s1, s2, dataReady, isr1, isr2, timer, lcdOn, startTime, lcd>>

\* lcdOn = true; return true;
BacklightStartOn ==
    /\ pc = "start_on"
    /\ lcdOn' = TRUE
    /\ pc' = "clear_ready"
    /\ UNCHANGED <<calc, reads, locals, serial, variant, epoch, now, s1, s2, dataReady, isr1, isr2, timer, startTime, lcd>>

\* lcdBacklight.checkTime() finds the period expired:
\* Serial.println("lcd backlight turn off"); setBacklight(LOW);
CheckTime ==
    /\ variant = "v1"
    /\ pc = "loop"
    /\ BacklightExpired
    /\ serial' = "LcdBacklight::checkTime"
    /\ pc' = "check_delay"
    /\ UNCHANGED <<calc, reads, locals, variant, epoch, now, s1, s2, dataReady, isr1, isr2, timer, lcdOn, startTime, lcd>>

\* delay(100);
CheckTimeDelay ==
    /\ pc = "check_delay"
    /\ now' = now + CheckDelayMs
    /\ pc' = "check_off"
    /\ UNCHANGED <<calc, reads, locals, serial, variant, epoch, s1, s2, dataReady, isr1, isr2, timer, lcdOn, startTime, lcd>>

\* lcdOn = false; return true;
CheckTimeOff ==
    /\ pc = "check_off"
    /\ lcdOn' = FALSE
    /\ pc' = "loop_print"
    /\ UNCHANGED <<calc, reads, locals, serial, variant, epoch, now, s1, s2, dataReady, isr1, isr2, timer, startTime, lcd>>

\* Serial.println("loop");
LoopPrint ==
    /\ pc = "loop_print"
    /\ serial' = "loop"
    /\ pc' = "init_print"
    /\ UNCHANGED <<calc, reads, locals, variant, epoch, now, s1, s2, dataReady, isr1, isr2, timer, lcdOn, startTime, lcd>>

\* initInterrupts of part_000: Serial.println("initInterrupts"); EIFR = 0x03;
\* the two attachInterrupt calls follow (InitAttach1, InitAttach2)
InitPrint ==
    /\ pc = "init_print"
    /\ serial' = "initInterrupts"
    /\ pc' = "init_attach1"
    /\ UNCHANGED <<calc, reads, locals, variant, epoch, now, s1, s2, dataReady, isr1, isr2, timer, lcdOn, startTime, lcd>>

\* if(dataReady == true) { onDataReady(); ...
ReadyCheck ==
    /\ variant = "v1"
    /\ \/ pc = "loop" /\ ~BacklightExpired /\ dataReady /\ pc' = "odr"
       \/ pc = "ready_check" /\ pc' = (IF dataReady THEN "odr" ELSE "loop")
    /\ UNCHANGED <<calc, reads, locals, serial, variant, epoch, now, s1, s2, dataReady, isr1, isr2, timer, lcdOn, startTime, lcd>>

\* ... dataReady = false; }
ClearReady ==
    /\ pc = "clear_ready"
    /\ dataReady' = FALSE
    /\ pc' = "loop"
    /\ UNCHANGED <<calc, reads, locals, serial, variant, epoch, now, s1, s2, isr1, isr2, timer, lcdOn, startTime, lcd>>

----------------------------------------------------------------------------
(* Time *)

\* loop() has nothing to do: no event is due, no completed cycle is waiting
LoopIdle ==
    /\ pc = "loop"
    /\ IF variant = "v1"
       THEN ~BacklightExpired /\ ~dataReady
       ELSE DueSlots(timer, now) = {} /\ ~(~dataReady /\ AllSet)

\* millis() after one step of the clock.  loop() calls checkTime() in every
\* iteration, so while the backlight is on the clock does not pass the
\* millisecond of the expiry unnoticed: a step that would, ends there.
NextClock ==
    IF variant = "v1" /\ lcdOn /\ now + TickMs(variant) > ExpiryMs
    THEN ExpiryMs
    ELSE now + TickMs(variant)

\* The clock advances while loop() spins idle: an iteration of loop() is far
\* shorter than one step of the clock.
Tick ==
    /\ LoopIdle
    /\ NextClock <= epoch + MaxTicks * TickMs(variant)
    /\ now' = NextClock
    /\ UNCHANGED <<calc, reads, locals, serial, variant, epoch, s1, s2, dataReady, isr1, isr2, timer, lcdOn, startTime, lcd, pc>>

Loop ==
    \/ TimerUpdate
    \/ ResetS10 \/ ResetS11 \/ ResetS20 \/ ResetS21 \/ ResetReady
    \/ InitDetach1 \/ InitDetach2 \/ InitAttach1 \/ InitAttach2
    \/ LoopCheck
    \/ OnDataReady
    \/ OdrBegin \/ OdrExposure1 \/ OdrExposure2 \/ OdrTravel1 \/ OdrTravel2
    \/ OdrPrintResult
    \/ BacklightStart \/ BacklightStartDelay \/ BacklightStartOn
    \/ CheckTime \/ CheckTimeDelay \/ CheckTimeOff \/ LoopPrint \/ InitPrint
    \/ ReadyCheck \/ ClearReady

Next == ISR \/ Loop \/ Tick

Spec == Init /\ [][Next]_vars

\* loop() keeps running; the clock keeps advancing
FairSpec == Spec /\ WF_vars(Loop) /\ WF_vars(Tick)

----------------------------------------------------------------------------
(* Vocabulary of the claims *)

Slots == <<s1[0], s1[1], s2[0], s2[1]>>

Captured == {i \in 1..4 : Slots[i] # 0}

\* a cycle with at least one and fewer than four timestamps, not yet ready
Partial == ~dataReady /\ Captured # {} /\ Captured # 1..4

\* The clock values a behaviour passes through, and the one at which micros()
\* returned x (micros() is one-to-one over the window the model explores).
ClockValues == {epoch + k * TickMs(variant) : k \in 0..MaxTicks}
MsOf(x) == CHOOSE t \in ClockValues : Micros(t) = x

\* millis() at the latest captured edge of the live cycle
LastEdgeMs == LET T == {MsOf(Slots[i]) : i \in Captured}
              IN  CHOOSE t \in T : \A u \in T : u <= t

\* the event timer.update() is about to free in this step
FiringEvent == timer[FirstDue(timer, now)]

\* a step in which timer.update() calls resetMeasuredData
ResetFires == pc = "loop" /\ pc' = "reset_s10"

\* the step that returns from initInterrupts to loop() in the Timer sketches
ArmCycleReturns == variant \in TimerVariants /\ pc = "init_attach2" /\ pc' = "loop"

----------------------------------------------------------------------------
(* C1 *)

\* C1: when armCycle (resetMeasuredData, which ends in initInterrupts) returns,
\* dataReady is false and every channel that has not already captured an edge of
\* the new cycle is armed for its first edge with both timestamps 0, whatever
\* handlers ran between the statements of the reset.  (Sensor 1 is attached one
\* statement before the return, so it may already have taken its first edge;
\* its second timestamp must still be 0.)
C1_ResetProperty ==
    [][ArmCycleReturns =>
          /\ ~dataReady'
          /\ isr2' = "s2_down" /\ s2' = Zero
          /\ (isr1' = "s1_down" => s1' = Zero)
          /\ (isr1' = "s1_up" => s1'[1] = 0)]_vars

----------------------------------------------------------------------------
(* C2 *)

\* C2: a partial cycle is discarded once the stall timeout has passed without a
\* further edge: with loop() idle, no partial cycle is older than StallMs counted
\* from its latest captured edge, whichever sensor and edges were captured
\* (sketches with the watchdog or its TODO: part_001, part_002).
C2_StallRecovery ==
    (variant \in {"v21c", "v21"} /\ Partial /\ LoopIdle) => now - LastEdgeMs <= StallMs

----------------------------------------------------------------------------
(* C3 *)

\* C3: when the stall watchdog (the 2000 ms event of part_001's s1_down) forces
\* a reset, the cycle is not ready, and any timestamps it discards belong to the
\* cycle whose s1_down scheduled it, which is then StallMs old: a watchdog
\* scheduled during an earlier cycle never aborts a later one.
C3_WatchdogOnlyStalled ==
    [][(variant = "v21c" /\ ResetFires /\ FiringEvent.period = StallMs) =>
          /\ ~dataReady
          /\ (Captured # {} => s1[0] = Micros(FiringEvent.start))]_vars

----------------------------------------------------------------------------
(* C4 *)

\* C4: onDataReady runs only in a state where all four timestamps are set
\* (shutter_tester.ino, part_000 and the other sketches alike).
C4_ComputeOnlyWhenAllSet == pc = "odr" => AllSet

----------------------------------------------------------------------------
(* C5 *)

\* C5: in the Timer sketches onDataReady is entered only by a step that sets the
\* latch dataReady from false to true, and the latch is released only by the
\* statement of resetMeasuredData that follows the clearing of all four
\* timestamps: between two resets onDataReady runs at most once, and never again
\* on timestamps it has already displayed.
C5_Idempotence ==
    [][(variant \in TimerVariants) =>
          /\ ((pc # "odr" /\ pc' = "odr") => (~dataReady /\ dataReady'))
          /\ ((dataReady /\ ~dataReady') =>
                 (pc = "reset_ready" /\ s1' = Zero /\ s2' = Zero))]_vars

\* a second completed cycle is about to be computed after an earlier display
C5_Witness == variant \in TimerVariants /\ pc = "odr" /\ lcd.shown

----------------------------------------------------------------------------
(* C6 *)

\* C6: a recorded timestamp is never replaced by another value: while a channel
\* has its rise time and not yet its fall time the rise time does not change,
\* a recorded fall time does not change, and either goes back to 0 only by a
\* reset.  A second dark-to-light edge therefore leaves the first rise time.
C6_DuplicateEdgeGuard ==
    [][/\ ((s1[0] # 0 /\ s1[1] = 0) => s1'[0] \in {s1[0], 0})
       /\ ((s2[0] # 0 /\ s2[1] = 0) => s2'[0] \in {s2[0], 0})
       /\ (s1[1] # 0 => s1'[1] \in {s1[1], 0})
       /\ (s2[1] # 0 => s2'[1] \in {s2[1], 0})]_vars

----------------------------------------------------------------------------
(* C7 *)

\* C7: in the Timer sketches an edge handler that runs while dataReady is true
\* writes no timestamp and leaves both channels' attached handlers as they are.
C7_EdgeIgnoredWhenReady ==
    [][(variant \in TimerVariants /\ dataReady /\ ISR) =>
          UNCHANGED <<s1, s2, isr1, isr2>>]_vars

\* a handler is still attached, so an edge can be delivered, while dataReady is true
C7_Witness ==
    variant \in TimerVariants /\ dataReady /\ (isr1 # "none" \/ isr2 # "none")

----------------------------------------------------------------------------
(* C8 *)

\* the re-arm event scheduled by onDataReady is pending and its period has not
\* yet elapsed
DwellRunning ==
    \E i \in 1..Len(timer) :
        /\ timer[i].period = DwellMs(variant)
        /\ now - timer[i].start < DwellMs(variant)

\* C8: while the dwell period scheduled by onDataReady is running, the displayed
\* cycle is left alone: dataReady is still true, no timestamp has been cleared
\* and no reset is in progress.
C8_DisplayDwell ==
    (variant \in TimerVariants /\ DwellRunning) =>
        (dataReady /\ AllSet /\ pc \notin ResetPcs)

----------------------------------------------------------------------------
(* C9 *)

\* C9: onDataReady leaves the display unchanged when a channel's fall time is
\* numerically smaller than its rise time.
C9_InvalidOrderingDiscarded ==
    [][(variant \in TimerVariants /\ pc = "odr" /\ (s1[1] < s1[0] \/ s2[1] < s2[0])) =>
          lcd' = lcd]_vars

----------------------------------------------------------------------------
(* C10 *)

\* microseconds between the edges at which micros() returned x and y
Elapsed(x, y) == (MsOf(y) - MsOf(x)) * 1000

\* the two exposures and the two travel times that really passed
TrueDurations ==
    [e1 |-> Elapsed(s1[0], s1[1]), e2 |-> Elapsed(s2[0], s2[1]),
     t1 |-> Abs(Elapsed(s1[0], s2[0])), t2 |-> Abs(Elapsed(s1[1], s2[1]))]

\* C10: for a completed cycle whose edges came in the order rise, fall on each
\* channel, the durations onDataReady computes equal the time that really
\* passed between the edges, also when micros() wrapped between them: what it
\* hands to the display is what the true exposures and travel times give.
C10_WrapTolerance ==
    [][(/\ variant \in TimerVariants
        /\ pc = "odr" /\ pc' # "odr"
        /\ MsOf(s1[0]) <= MsOf(s1[1])
        /\ MsOf(s2[0]) <= MsOf(s2[1])) =>
          /\ locals' = TrueDurations
          /\ [e1 |-> lcd'.e1, e2 |-> lcd'.e2, t1 |-> lcd'.t1, t2 |-> lcd'.t2]
                 \in Displayed(variant, TrueDurations)]_vars

----------------------------------------------------------------------------
\* C15: a step of an edge interrupt handler saves the time and switches the
\* watched edge and nothing else: it writes no line to Serial, schedules no
\* timer event and leaves the display alone.
C15_HandlerOnlySavesTime ==
    [][ISR => (serial' = serial /\ timer' = timer /\ lcd' = lcd)]_vars

\* C16: a handler of sensor 1 leaves sensor 2's timestamps and attached handler
\* unchanged, and a handler of sensor 2 leaves sensor 1's unchanged.
C16_NoCrossChannelWrites ==
    [][/\ ((s1_down \/ s1_up) => UNCHANGED <<s2, isr2>>)
       /\ ((s2_down \/ s2_up) => UNCHANGED <<s1, isr1>>)]_vars

\* C18: in the backlight sketch no timestamp changes while the backlight stays
\* on (from LcdBacklight::start to the expiry that checkTime reports).
C18_MeasuringDisabledWhileLit ==
    [][(variant = "v1" /\ lcdOn /\ lcdOn') => UNCHANGED <<s1, s2>>]_vars

\* C19: when loop() has found all four timestamps set and is about to run
\* onDataReady, no handler is attached to either sensor.
C19_DetectionOffAtCompletion ==
    (variant \in TimerVariants /\ pc = "odr") => (isr1 = "none" /\ isr2 = "none")

----------------------------------------------------------------------------
(* part_000 replayed on a given sequence of edges.  The state of a replay *)
(* is a record of the sketch's globals, the handler attached to each      *)
(* sensor, the backlight, the clock in microseconds since reset (us;      *)
(* millis() is its thousandth), the statement of setup() or loop() that   *)
(* runs next (pc, as above, the statements that only write to Serial or   *)
(* to the display's pins left out), the end of the delay() in progress    *)
(* (until), and what onDataReady has read, computed and displayed.  Times *)
(* are whole microseconds below 2^31.                                     *)

\* delay(500) of LcdBacklight::begin, in milliseconds
SetupDelayMs == 500

\* reset: setup() is in the delay(500) of LcdBacklight::begin, no handler is
\* attached yet
V1Start == [s1 |-> Zero, s2 |-> Zero, dataReady |-> FALSE,
            isr1 |-> "none", isr2 |-> "none",
            lcdOn |-> FALSE, startTime |-> 0, us |-> 0,
            until |-> SetupDelayMs * 1000, pc |-> "setup_delay",
            reads |-> NoReads, locals |-> [e1 |-> 0, e2 |-> 0, t1 |-> 0, t2 |-> 0],
            lcd |-> [shown |-> FALSE, e1 |-> 0, e2 |-> 0, t1 |-> 0, t2 |-> 0]]

\* s1_up: resetMeasuredData(); s1[0] = micros(); attach s1_down
V1_s1_up(st, t) ==
    [st EXCEPT !.dataReady = FALSE, !.s1 = [Zero EXCEPT ![0] = t], !.s2 = Zero,
               !.isr1 = "s1_down"]

\* s1_down: s1[1] = micros(); detach
V1_s1_down(st, t) == [st EXCEPT !.s1 = [st.s1 EXCEPT ![1] = t], !.isr1 = "none"]

\* s2_up: s2[0] = micros(); attach s2_down
V1_s2_up(st, t) == [st EXCEPT !.s2 = [st.s2 EXCEPT ![0] = t], !.isr2 = "s2_down"]

\* s2_down: s2[1] = micros(); detach; dataReady = true
V1_s2_down(st, t) ==
    [st EXCEPT !.s2 = [st.s2 EXCEPT ![1] = t], !.isr2 = "none", !.dataReady = TRUE]

\* an edge e = <<sensor, handler, time>> arrives at its time and reaches the
\* handler if it is attached
V1Deliver(st, e) ==
    LET at == [st EXCEPT !.us = e[3]]
    IN  IF e[1] = 1 /\ e[2] = st.isr1
        THEN (IF e[2] = "s1_up" THEN V1_s1_up(at, e[3]) ELSE V1_s1_down(at, e[3]))
        ELSE IF e[1] = 2 /\ e[2] = st.isr2
        THEN (IF e[2] = "s2_up" THEN V1_s2_up(at, e[3]) ELSE V1_s2_down(at, e[3]))
        ELSE at

\* LcdBacklight::checkTime() would report expiry, and the first microsecond
\* at which it does
V1Expired(st) == st.lcdOn /\ st.us \div 1000 > st.startTime + BacklightSeconds * 1000
V1ExpiryUs(st) == (st.startTime + BacklightSeconds * 1000 + 1) * 1000

\* a statement of onDataReady after the read r: the local is assigned and
\* the next statement follows once the reads are done
V1Read(st, r, local, next) ==
    [st EXCEPT !.reads = r.reads,
               !.locals = IF r.done THEN [st.locals EXCEPT ![local] = r.value] ELSE st.locals,
               !.pc = IF r.done THEN next ELSE st.pc]

\* the next step of the main program: of setup() from the delay(500) of
\* LcdBacklight::begin on, then of loop(), that is of
\* "if(lcdBacklight.checkTime()) { initInterrupts(); }" or of
\* "if(dataReady == true) { onDataReady(); dataReady = false; }"
V1Loop(st) ==
    CASE st.pc = "setup_delay" -> [st EXCEPT !.us = st.until, !.pc = "setup_off"]
      [] st.pc = "setup_off" -> [st EXCEPT !.lcdOn = FALSE, !.pc = "setup_attach1"]
      [] st.pc = "setup_attach1" -> [st EXCEPT !.isr1 = "s1_up", !.pc = "setup_attach2"]
      [] st.pc = "setup_attach2" -> [st EXCEPT !.isr2 = "s2_up", !.pc = "loop"]
      [] st.pc = "loop" ->
             IF V1Expired(st)
             THEN [st EXCEPT !.pc = "check_delay", !.until = st.us + CheckDelayMs * 1000]
             ELSE IF st.dataReady THEN [st EXCEPT !.pc = "odr_exposure1"] ELSE st
      [] st.pc = "check_delay" -> [st EXCEPT !.us = st.until, !.pc = "check_off"]
      [] st.pc = "check_off" -> [st EXCEPT !.lcdOn = FALSE, !.pc = "init_attach1"]
      [] st.pc = "init_attach1" -> [st EXCEPT !.isr1 = "s1_up", !.pc = "init_attach2"]
      [] st.pc = "init_attach2" -> [st EXCEPT !.isr2 = "s2_up", !.pc = "ready_check"]
      [] st.pc = "ready_check" ->
             [st EXCEPT !.pc = IF st.dataReady THEN "odr_exposure1" ELSE "loop"]
      [] st.pc = "odr_exposure1" ->
             V1Read(st, DifferenceStep(st.reads, st.s1[1], st.s1[0]), "e1", "odr_exposure2")
      [] st.pc = "odr_exposure2" ->
             V1Read(st, DifferenceStep(st.reads, st.s2[1], st.s2[0]), "e2", "odr_travel1")
      [] st.pc = "odr_travel1" ->
             V1Read(st, MaxMinStep(st.reads, st.s1[0], st.s2[0]), "t1", "odr_travel2")
      [] st.pc = "odr_travel2" ->
             V1Read(st, MaxMinStep(st.reads, st.s2[1], st.s1[1]), "t2", "odr_print")
      [] st.pc = "odr_print" ->
             [st EXCEPT !.lcd = [shown |-> TRUE, e1 |-> st.locals.e1, e2 |-> st.locals.e2,
                                 t1 |-> st.locals.t1, t2 |-> st.locals.t2],
                        !.pc = "start"]
      [] st.pc = "start" ->
             IF st.lcdOn THEN [st EXCEPT !.pc = "clear_ready"]
             ELSE [st EXCEPT !.startTime = st.us \div 1000,
                             !.until = st.us + StartDelayMs * 1000, !.pc = "start_delay"]
      [] st.pc = "start_delay" -> [st EXCEPT !.us = st.until, !.pc = "start_on"]
      [] st.pc = "start_on" -> [st EXCEPT !.lcdOn = TRUE, !.pc = "clear_ready"]
      [] st.pc = "clear_ready" -> [st EXCEPT !.dataReady = FALSE, !.pc = "loop"]

\* the main program is inside a delay()
V1InDelay(st) == st.pc \in {"setup_delay", "check_delay", "start_delay"}

\* loop() has nothing to do
V1Idle(st) == st.pc = "loop" /\ ~st.dataReady /\ ~V1Expired(st)

\* The main program can take its next step before the edges that are still to
\* come (in time order): a delay() ends no later than the next edge, and an
\* idle loop() has work again when the backlight expires.  Any other
\* statement can run at once; how long it takes is not known, so an edge may
\* be served before or after it.
V1MayStep(st, edges) ==
    IF V1InDelay(st)
    THEN (IF Len(edges) = 0 THEN TRUE ELSE st.until <= Head(edges)[3])
    ELSE IF V1Idle(st)
         THEN st.lcdOn /\ (IF Len(edges) = 0 THEN TRUE ELSE V1ExpiryUs(st) <= Head(edges)[3])
         ELSE TRUE

\* the edge at the time t can be served now: a delay() in progress has not
\* ended before t
V1MayServe(st, t) == V1InDelay(st) => t <= st.until

\* the next step of the main program at the time it is taken: an idle loop()
\* spins until the backlight expires
V1Advance(st) ==
    IF V1Idle(st) THEN V1Loop([st EXCEPT !.us = V1ExpiryUs(st)]) ELSE V1Loop(st)

\* a set of edges ordered by time
RECURSIVE InTimeOrder(_)
InTimeOrder(E) ==
    IF E = {} THEN <<>>
    ELSE LET first == CHOOSE e \in E : \A f \in E : e[3] <= f[3]
         IN  <<first>> \o InTimeOrder(E \ {first})

\* the edges of a shutter run in which sensor 1 is lit from a[0] to a[1] and
\* sensor 2 from b[0] to b[1]
EdgesOf(a, b) ==
    InTimeOrder({<<1, "s1_up", a[0]>>, <<1, "s1_down", a[1]>>,
                 <<2, "s2_up", b[0]>>, <<2, "s2_down", b[1]>>})

\* the replay is over: every edge has arrived, loop() is idle and the
\* backlight is off again
V1Done(st, edges) == Len(edges) = 0 /\ V1Idle(st) /\ ~st.lcdOn

----------------------------------------------------------------------------
(* The calculator and the formatter run on their own (Timer sketches), and *)
(* part_000 run from reset on the edges of a shutter run and then, from    *)
(* reset again, on the same edges with the two sensors exchanged           *)

\* Inputs of the runs: sensor 1 uncovered at 1000 us, sensor 2 earlier or
\* later by a lag, each sensor lit for one of the exposures (all multiples of
\* 4 us, as micros() returns them)
CalcRises == {1000}
CalcLags == {-300, 300, 1200, 6440, 10000}
CalcExposures == {124, 5000, 400000, 1500000}

\* the timestamps of a channel uncovered at rise for exposure microseconds
Lit(rise, exposure) == [i \in {0, 1} |-> IF i = 0 THEN rise ELSE rise + exposure]

\* an array of microsecond values in the model's steps of 4 us
InSteps(s) == [i \in {0, 1} |-> s[i] \div 4]

\* a Timer sketch in the state in which loop() enters onDataReady on a
\* completed cycle: all four timestamps are set, dataReady is true, both
\* sensors are detached, and in part_001 the 2000 ms event that s1_down
\* scheduled is still pending (every cycle of the inputs is shorter than that).
\* The last line on Serial is that of the handler of the last edge, where it
\* writes one.
CalcInput ==
    /\ variant \in TimerVariants
    /\ \E r \in CalcRises, lag \in CalcLags, x1 \in CalcExposures, x2 \in CalcExposures :
          calc = [step |-> "input", s1 |-> Lit(r, x1), s2 |-> Lit(r + lag, x2)]
    /\ now = Max(calc.s1[1], calc.s2[1]) \div 1000
    /\ epoch = now
    /\ s1 = InSteps(calc.s1)
    /\ s2 = InSteps(calc.s2)
    /\ dataReady = TRUE
    /\ isr1 = "none"
    /\ isr2 = "none"
    /\ timer = IF variant = "v21c"
               THEN After(<<>>, calc.s1[0] \div 1000, StallMs)
               ELSE <<>>
    /\ lcdOn = FALSE
    /\ startTime = 0
    /\ locals = [e1 |-> 0, e2 |-> 0, t1 |-> 0, t2 |-> 0]
    /\ reads = NoReads
    /\ lcd = [shown |-> FALSE, e1 |-> 0, e2 |-> 0, t1 |-> 0, t2 |-> 0]
    /\ pc = "odr"
    /\ serial = IF variant = "v20"
                THEN (IF calc.s1[1] > calc.s2[1] THEN "s1_up" ELSE "s2_up")
                ELSE "setup"

\* part_000 at reset: setup() is in the delay(500) of LcdBacklight::begin, and
\* the edges of the shutter run are still to come, sensor 1 uncovered 1000 us
\* after the delay.  The replay is kept in calc: the run in progress (step),
\* its state (st), the edges to come (edges) and what the first run displayed
\* (first); the sketch's variables stay as they are at reset.
ReplayInit ==
    /\ variant = "v1"
    /\ \E r \in CalcRises, lag \in CalcLags, x1 \in CalcExposures, x2 \in CalcExposures :
          LET a == Lit(SetupDelayMs * 1000 + r, x1)
              b == Lit(SetupDelayMs * 1000 + r + lag, x2)
          IN  calc = [step |-> "run1", s1 |-> a, s2 |-> b, st |-> V1Start,
                      edges |-> EdgesOf(a, b), first |-> V1Start.lcd]
    /\ now = 0
    /\ epoch = 0
    /\ s1 = Zero
    /\ s2 = Zero
    /\ dataReady = FALSE
    /\ isr1 = "none"
    /\ isr2 = "none"
    /\ timer = <<>>
    /\ lcdOn = FALSE
    /\ startTime = 0
    /\ locals = [e1 |-> 0, e2 |-> 0, t1 |-> 0, t2 |-> 0]
    /\ reads = NoReads
    /\ lcd = [shown |-> FALSE, e1 |-> 0, e2 |-> 0, t1 |-> 0, t2 |-> 0]
    /\ pc = "setup_delay"
    /\ serial = "LcdBacklight::begin"

CalcInit == CalcInput \/ ReplayInit

\* onDataReady of a Timer sketch, first half: after its Serial line the
\* durations are derived from the timestamps
CalcDerive ==
    /\ calc.step = "input"
    /\ \E d \in Derived(variant, calc.s1, calc.s2) :
          calc' = [step |-> "derived", s1 |-> calc.s1, s2 |-> calc.s2, d |-> d]
    /\ serial' = "onDataReady"
    /\ UNCHANGED <<variant, epoch, now, s1, s2, dataReady, isr1, isr2, timer,
                   lcdOn, startTime, locals, reads, lcd, pc>>

\* onDataReady of a Timer sketch, second half: the print functions write the
\* rows of the display, then the re-arm is scheduled (timer.after)
CalcPrint ==
    /\ calc.step = "derived"
    /\ \E x1 \in ExposureText(variant, calc.d.e1), m1 \in ExposureMs(variant, calc.d.e1),
          x2 \in ExposureText(variant, calc.d.e2), m2 \in ExposureMs(variant, calc.d.e2),
          y1 \in RightAlignedMs(variant, PrintedTravel(variant, calc.d.t1)),
          y2 \in RightAlignedMs(variant, PrintedTravel(variant, calc.d.t2)) :
          calc' = [step |-> "printed", s1 |-> calc.s1, s2 |-> calc.s2,
                   d |-> calc.d, exp1 |-> x1, ms1 |-> m1, exp2 |-> x2, ms2 |-> m2,
                   trav1 |-> y1, trav2 |-> y2]
    /\ timer' = After(timer, now, DwellMs(variant))
    /\ UNCHANGED <<variant, epoch, now, s1, s2, dataReady, isr1, isr2, lcdOn,
                   startTime, locals, reads, lcd, pc, serial>>

\* a replay of part_000 is in progress
Replaying == calc.step \in {"run1", "run2"}

\* part_000: the next edge of the run arrives and is served
ReplayEdge ==
    /\ Replaying
    /\ Len(calc.edges) > 0
    /\ V1MayServe(calc.st, Head(calc.edges)[3])
    /\ calc' = [calc EXCEPT !.st = V1Deliver(calc.st, Head(calc.edges)),
                            !.edges = Tail(calc.edges)]
    /\ UNCHANGED <<variant, epoch, now, s1, s2, dataReady, isr1, isr2, timer,
                   lcdOn, startTime, locals, reads, lcd, pc, serial>>

\* part_000: the main program takes its next step
ReplayLoop ==
    /\ Replaying
    /\ V1MayStep(calc.st, calc.edges)
    /\ calc' = [calc EXCEPT !.st = V1Advance(calc.st)]
    /\ UNCHANGED <<variant, epoch, now, s1, s2, dataReady, isr1, isr2, timer,
                   lcdOn, startTime, locals, reads, lcd, pc, serial>>

\* part_000: the run is over; after the first run the board is reset and the
\* same edges follow with the two sensors exchanged
ReplayNext ==
    /\ Replaying
    /\ V1Done(calc.st, calc.edges)
    /\ calc' = IF calc.step = "run1"
               THEN [calc EXCEPT !.step = "run2", !.first = calc.st.lcd, !.st = V1Start,
                                 !.edges = EdgesOf(calc.s2, calc.s1)]
               ELSE [calc EXCEPT !.step = "replayed"]
    /\ UNCHANGED <<variant, epoch, now, s1, s2, dataReady, isr1, isr2, timer,
                   lcdOn, startTime, locals, reads, lcd, pc, serial>>

CalcNext == CalcDerive \/ CalcPrint \/ ReplayEdge \/ ReplayLoop \/ ReplayNext

CalcSpec == CalcInit /\ [][CalcNext]_vars

----------------------------------------------------------------------------
(* Claims about the calculator and the formatter (under CalcSpec) *)

Printed == calc.step = "printed"

\* the measured time between the two rising / the two falling edges
OpenDifference == Travel(calc.s1[0], calc.s2[0])
CloseDifference == Travel(calc.s2[1], calc.s1[1])

\* what the formatter prints around the '.' for a duration in microseconds
ShownMs(microseconds) == <<ToInt(microseconds \div 1000), (microseconds % 1000) \div 10>>

\* C11: in shutter_tester.ino and part_002 the travel time on the display is
\* floor(1.2 x measured difference) microseconds, for every measured difference.
C11_TravelTimes12 ==
    (Printed /\ variant \in {"v20", "v21"}) =>
        /\ <<calc.trav1.whole, calc.trav1.fraction>> = ShownMs((12 * OpenDifference) \div 10)
        /\ <<calc.trav2.whole, calc.trav2.fraction>> = ShownMs((12 * CloseDifference) \div 10)

\* the inputs of scenario A
ScenarioA ==
    /\ variant = "v21c"
    /\ calc.s1 = [i \in {0, 1} |-> IF i = 0 THEN 1000 ELSE 6000]
    /\ calc.s2 = [i \in {0, 1} |-> IF i = 0 THEN 1300 ELSE 6300]

\* C12: for scenario A the corrected sketch derives travel_open = 414,
\* travel_close = 414 and corrected exposure1 = 4993 (from the raw 5000).
C12_ScenarioA ==
    (ScenarioA /\ calc.step \in {"derived", "printed"}) =>
        /\ calc.s1[1] - calc.s1[0] = 5000
        /\ calc.d.t1 = 414
        /\ calc.d.t2 = 414
        /\ calc.d.e1 = 4993

\* round(a / b) for a >= 0, b > 0: the quotient rounded to the nearest whole
\* number, halves upwards
RoundedQuotient(a, b) == (2 * a + b) \div (2 * b)

\* C13: an exposure below one second is printed as "1/" and
\* round(1000000 / exposure); an exposure of one second or more is printed as
\* its whole milliseconds followed by "ms", with no fractional part.
\* (Stated for exposures that the correction did not push out of the range of
\* unsigned long.)
C13_ExposureFormat ==
    (/\ Printed
     /\ variant \in {"v20", "v21c"}
     /\ 0 <= calc.d.e1 /\ calc.d.e1 <= calc.s1[1] - calc.s1[0]) =>
        /\ (calc.d.e1 > 0 /\ calc.d.e1 < ONE_SECOND) =>
               calc.exp1 = [kind |-> "1/", n |-> RoundedQuotient(ONE_SECOND, calc.d.e1)]
        /\ calc.d.e1 >= ONE_SECOND =>
               (calc.exp1 = [kind |-> "ms", n |-> calc.d.e1 \div 1000] /\ ~calc.ms1.printed)

\* the millisecond fields a run has printed
MsFields == {calc.ms1, calc.ms2, calc.trav1, calc.trav2}

\* C14: the formatter never calls log10 with zero; a whole part of zero is
\* placed at column 10.
C14_NoLog10OfZero ==
    Printed => \A f \in MsFields :
                   f.printed => (f.log10 # <<0>> /\ (f.whole = 0 => f.col = 10))

\* C20: the measurement does not depend on which sensor is uncovered first.
\* The calculator of shutter_tester.ino gives, for exchanged timestamp pairs,
\* the same travel times and the exposures exchanged; and part_000, run from
\* reset on the edges of a shutter run and run again on the same edges with the
\* two sensors exchanged, has displayed a measurement in both runs or in
\* neither, and the same two travel times.
C20_SensorSymmetry ==
    /\ (variant = "v20" /\ calc.step = "derived") =>
           Derived(variant, calc.s2, calc.s1) =
               {[e1 |-> calc.d.e2, e2 |-> calc.d.e1, t1 |-> calc.d.t1, t2 |-> calc.d.t2]}
    /\ (variant = "v1" /\ calc.step = "replayed") =>
           /\ calc.first.shown = calc.st.lcd.shown
           /\ calc.first.t1 = calc.st.lcd.t1
           /\ calc.first.t2 = calc.st.lcd.t2

----------------------------------------------------------------------------
\* the timestamps s of a channel agree with the handler attached to it: armed
\* for the first edge, neither is set; armed for the second edge, only the
\* first is set; detached, both are set
ChannelAgrees(s, isr, first, second) ==
    /\ isr = first => s = Zero
    /\ isr = second => (s[0] # 0 /\ s[1] = 0)
    /\ isr = "none" => (s[0] # 0 /\ s[1] # 0)
    /\ ~(s[1] # 0 /\ s[0] = 0)

\* C21: in the Timer sketches, whenever loop() is not in the middle of
\* resetMeasuredData / initInterrupts, each channel's timestamps agree with its
\* attached handler; in particular no fall is set while the rise is unset.
C21_StateTimestampAgreement ==
    (variant \in TimerVariants /\ pc \notin ResetPcs) =>
        /\ ChannelAgrees(s1, isr1, "s1_down", "s1_up")
        /\ ChannelAgrees(s2, isr2, "s2_down", "s2_up")

\* the raw exposures s[1] - s[0] of the calculator's input
ExposureRaw1 == calc.s1[1] - calc.s1[0]
ExposureRaw2 == calc.s2[1] - calc.s2[0]

\* the calculator has stored the corrected results of part_001
CorrectedStored ==
    /\ variant = "v21c"
    /\ calc.step \in {"derived", "printed"}

\* C22: in the corrected sketch no stored corrected exposure is, as the
\* unsigned long it is, larger than the raw exposure it was computed from.
C22_CorrectedExposureInRange ==
    CorrectedStored =>
        /\ ~ULongLess(ExposureRaw1, calc.d.e1)
        /\ ~ULongLess(ExposureRaw2, calc.d.e2)

\* C23: no exposure handed to the formatter is 0 when the subtraction of the
\* aperture correction is not negative (in the uncorrected sketches: ever), so
\* the reciprocal branch never divides by zero.
C23_ExposurePositive ==
    (/\ calc.step \in {"derived", "printed"}
     /\ variant = "v21c" => (/\ 0 <= calc.d.t2
                             /\ 60 * ExposureRaw1 >= calc.d.t2
                             /\ 60 * ExposureRaw2 >= calc.d.t2))
        => (calc.d.e1 # 0 /\ calc.d.e2 # 0)

====
